---- MODULE Spec2Model ----
(***************************************************************************)
(* Model of the Flux rich-list scanner (flux-scanner): the scan engine     *)
(* (scanner.ts), its two triggers (index.ts), the balance ledger           *)
(* (processTransaction), the snapshot server (server.ts) and the scanner   *)
(* configuration (config.ts).                                              *)
(*                                                                         *)
(* Spec       the startup scan and the scheduled scan of one process,      *)
(*            interleaved at their awaits, with indexer failures,          *)
(*            malformed payloads, chain growth and process restarts.       *)
(* SpecServe  the snapshot routes served while scans run.                  *)
(* SpecLedger processTransaction applied to arbitrary transactions.        *)
(* SpecRichList generateRichList applied to arbitrary small ledgers.       *)
(* SpecRoutes the snapshot routes over the documents they can find, with   *)
(*            arbitrary page and pageSize parameters.                      *)
(* SpecConfig initializeConfig (config.ts) under arbitrary environments.   *)
(* SpecRegenerate  scans one after the other, with rich-list.json removed  *)
(*            between two of them.                                         *)
(* SpecFair   scans one after the other, every await settling.             *)
(* SpecLedgerThrows  SpecLedger with calls that throw part-way.            *)
(*                                                                         *)
(* Amounts: the indexer reports integer satoshis, satoshisToFlux divides   *)
(* by 10^8.  A FLUX amount x is represented here by the integer x * 10^8,  *)
(* so the ledger holds whole numbers of 10^-8 FLUX.                        *)
(* JS Maps are sequences of <<key, value>> pairs in insertion order.       *)
(* fs.writeFile replaces a file in place: it truncates on open and the     *)
(* content is complete only when the write has landed.                     *)
(***************************************************************************)
EXTENDS Integers, Sequences, FiniteSets, TLC

VARIABLES
    chainTip,       \* indexer: status.backend.blocks
    stateFile,      \* DATA_DIR/scan-state.json
    richListFile,   \* DATA_DIR/rich-list.json
    pc,             \* per scanBlockchain invocation: the await it is suspended at
    st,             \* per invocation: the ScanState object `state`
    currentHeight,  \* per invocation: const currentHeight
    height,         \* per invocation: loop variable `height`
    blocksProcessed,\* per invocation: let blocksProcessed
    overlapped,     \* per invocation: its fs.writeFile in flight raced with another on the same file
    lastResponse,   \* server.ts: the last HTTP response sent
    faults,         \* number of indexer requests that failed or returned a malformed payload
    ledger,         \* a ScanState driven by processTransaction alone (SpecLedger)
    lastTx,         \* the transaction last applied to ledger (SpecLedger)
    env,            \* process.env: the variables config.ts reads
    activeConfig,   \* config.ts: let activeConfig
    currentMode     \* config.ts: let currentMode

vars == <<chainTip, stateFile, richListFile, pc, st, currentHeight, height,
          blocksProcessed, overlapped, lastResponse, faults, ledger, lastTx,
          env, activeConfig, currentMode>>

configVars == <<env, activeConfig, currentMode>>

scanVars == <<chainTip, stateFile, richListFile, pc, st, currentHeight, height,
              blocksProcessed, overlapped, lastResponse, faults>>

(***************************************************************************)
(* Bounds                                                                  *)
(***************************************************************************)
MaxHeight == 2
MaxFaults == 1
MaxLedgerTotal == 3
MaxTxCount == 3
MaxValue == 2

(***************************************************************************)
(* Configuration read from the environment                                 *)
(***************************************************************************)
CHECKPOINT_INTERVAL == 2
BATCH_SIZE == 1
MIN_BALANCE == 3

Passes == {"startup", "cron"}

(***************************************************************************)
(* JS Map                                                                  *)
(***************************************************************************)
MapHas(m, k) == \E i \in 1..Len(m) : m[i][1] = k

MapGetOr0(m, k) ==
    IF MapHas(m, k) THEN m[CHOOSE i \in 1..Len(m) : m[i][1] = k][2] ELSE 0

MapSet(m, k, v) ==
    IF MapHas(m, k)
    THEN [i \in 1..Len(m) |-> IF m[i][1] = k THEN <<k, v>> ELSE m[i]]
    ELSE Append(m, <<k, v>>)

MapDelete(m, k) == SelectSeq(m, LAMBDA e : e[1] # k)

MapKeys(m) == {m[i][1] : i \in 1..Len(m)}

RECURSIVE SumValues(_, _)
SumValues(m, i) == IF i > Len(m) THEN 0 ELSE m[i][2] + SumValues(m, i + 1)

(***************************************************************************)
(* ScanState                                                               *)
(***************************************************************************)
ScanState(last, balances, counts, supply) ==
    [lastScannedBlock |-> last, addressBalances |-> balances,
     addressTxCounts |-> counts, totalSupply |-> supply]

FreshState == ScanState(0, <<>>, <<>>, 0)

satoshisToFlux(satoshis) == satoshis

(***************************************************************************)
(* Transactions as the indexer returns them.  addrKind is "list" for an    *)
(* array of addresses, "undefined" when the field is absent and            *)
(* "notIterable" for a malformed payload whose addresses field is a        *)
(* truthy value that cannot be iterated.                                   *)
(***************************************************************************)
Coinbase == [coinbase |-> TRUE, addrKind |-> "undefined", addresses |-> <<>>,
             hasValue |-> FALSE, value |-> 0]

Entry(addr, v) == [coinbase |-> FALSE, addrKind |-> "list", addresses |-> <<addr>>,
                   hasValue |-> TRUE, value |-> v]

\* an input flagged coinbase that nevertheless carries addresses and a value
CoinbaseNaming(addr, v) == [coinbase |-> TRUE, addrKind |-> "list", addresses |-> <<addr>>,
                            hasValue |-> TRUE, value |-> v]

Malformed(v) == [coinbase |-> FALSE, addrKind |-> "notIterable", addresses |-> <<>>,
                 hasValue |-> TRUE, value |-> v]

Tx(vin, vout) == [vin |-> vin, vout |-> vout]

(***************************************************************************)
(* processTransaction                                                      *)
(***************************************************************************)
\* the delta of an input assigned instead of accumulated
RECURSIVE InputAddressesOverwrite(_, _, _, _, _)
InputAddressesOverwrite(addrs, j, amount, deltas, counts) ==
    IF j > Len(addrs) THEN [deltas |-> deltas, counts |-> counts]
    ELSE LET address == addrs[j]
             txCount == MapGetOr0(counts, address)
         IN InputAddressesOverwrite(addrs, j + 1, amount,
                                    MapSet(deltas, address, 0 - amount),
                                    MapSet(counts, address, txCount + 1))

RECURSIVE InputAddresses(_, _, _, _, _)
InputAddresses(addrs, j, amount, deltas, counts) ==
    IF j > Len(addrs) THEN [deltas |-> deltas, counts |-> counts]
    ELSE LET address == addrs[j]
             current == MapGetOr0(deltas, address)
             txCount == MapGetOr0(counts, address)
         IN InputAddresses(addrs, j + 1, amount,
                           MapSet(deltas, address, current - amount),
                           MapSet(counts, address, txCount + 1))

RECURSIVE ProcessInputs(_, _, _, _)
ProcessInputs(vin, i, deltas, counts) ==
    IF i > Len(vin) THEN [deltas |-> deltas, counts |-> counts, threw |-> FALSE]
    ELSE LET input == vin[i] IN
         IF input.coinbase THEN ProcessInputs(vin, i + 1, deltas, counts)
         ELSE IF input.addrKind # "undefined" /\ input.hasValue
         THEN IF input.addrKind = "notIterable"
              THEN [deltas |-> deltas, counts |-> counts, threw |-> TRUE]
              ELSE LET r == InputAddresses(input.addresses, 1,
                                           satoshisToFlux(input.value), deltas, counts)
                   IN ProcessInputs(vin, i + 1, r.deltas, r.counts)
         ELSE ProcessInputs(vin, i + 1, deltas, counts)

\* every output naming counted, whatever the delta
RECURSIVE OutputAddressesAlwaysCount(_, _, _, _, _)
OutputAddressesAlwaysCount(addrs, j, amount, deltas, counts) ==
    IF j > Len(addrs) THEN [deltas |-> deltas, counts |-> counts]
    ELSE LET address == addrs[j]
             current == MapGetOr0(deltas, address)
             txCount == MapGetOr0(counts, address)
         IN OutputAddressesAlwaysCount(addrs, j + 1, amount,
                                       MapSet(deltas, address, current + amount),
                                       MapSet(counts, address, txCount + 1))

RECURSIVE OutputAddresses(_, _, _, _, _)
OutputAddresses(addrs, j, amount, deltas, counts) ==
    IF j > Len(addrs) THEN [deltas |-> deltas, counts |-> counts]
    ELSE LET address == addrs[j]
             current == MapGetOr0(deltas, address)
             deltas2 == MapSet(deltas, address, current + amount)
             txCount == MapGetOr0(counts, address)
             counts2 == IF ~MapHas(deltas2, address) \/ MapGetOr0(deltas2, address) >= 0
                        THEN MapSet(counts, address, txCount + 1)
                        ELSE counts
         IN OutputAddresses(addrs, j + 1, amount, deltas2, counts2)

RECURSIVE ProcessOutputs(_, _, _, _)
ProcessOutputs(vout, i, deltas, counts) ==
    IF i > Len(vout) THEN [deltas |-> deltas, counts |-> counts, threw |-> FALSE]
    ELSE LET output == vout[i] IN
         IF output.addrKind # "undefined" /\ output.hasValue
         THEN IF output.addrKind = "notIterable"
              THEN [deltas |-> deltas, counts |-> counts, threw |-> TRUE]
              ELSE LET r == OutputAddresses(output.addresses, 1,
                                            satoshisToFlux(output.value), deltas, counts)
                   IN ProcessOutputs(vout, i + 1, r.deltas, r.counts)
         ELSE ProcessOutputs(vout, i + 1, deltas, counts)

\* the balance test with >= in place of >
ApplyDeltaStrict(balances, counts, address, delta) ==
    LET newBalance == MapGetOr0(balances, address) + delta IN
    IF newBalance >= 0
    THEN [balances |-> MapSet(balances, address, newBalance), counts |-> counts]
    ELSE [balances |-> MapDelete(balances, address), counts |-> MapDelete(counts, address)]

ApplyDelta(balances, counts, address, delta) ==
    LET currentBalance == MapGetOr0(balances, address)
        newBalance == currentBalance + delta
    IN IF newBalance > 0
       THEN [balances |-> MapSet(balances, address, newBalance), counts |-> counts]
       ELSE [balances |-> MapDelete(balances, address),
             counts |-> MapDelete(counts, address)]

\* an emptied address deleted from the balances only
RECURSIVE ApplyBalanceChangesKeepsCount(_, _, _, _)
ApplyBalanceChangesKeepsCount(deltas, i, balances, counts) ==
    IF i > Len(deltas) THEN [balances |-> balances, counts |-> counts]
    ELSE LET newBalance == MapGetOr0(balances, deltas[i][1]) + deltas[i][2]
         IN ApplyBalanceChangesKeepsCount(deltas, i + 1,
               IF newBalance > 0 THEN MapSet(balances, deltas[i][1], newBalance)
                                 ELSE MapDelete(balances, deltas[i][1]),
               counts)

RECURSIVE ApplyBalanceChanges(_, _, _, _)
ApplyBalanceChanges(deltas, i, balances, counts) ==
    IF i > Len(deltas) THEN [balances |-> balances, counts |-> counts]
    ELSE LET r == ApplyDelta(balances, counts, deltas[i][1], deltas[i][2])
         IN ApplyBalanceChanges(deltas, i + 1, r.balances, r.counts)

\* Result: the state object after the call and whether the call threw.
processTransaction(tx, state) ==
    LET ins == ProcessInputs(tx.vin, 1, <<>>, state.addressTxCounts) IN
    IF ins.threw
    THEN [state |-> [state EXCEPT !.addressTxCounts = ins.counts], threw |-> TRUE]
    ELSE LET outs == ProcessOutputs(tx.vout, 1, ins.deltas, ins.counts) IN
         IF outs.threw
         THEN [state |-> [state EXCEPT !.addressTxCounts = outs.counts], threw |-> TRUE]
         ELSE LET r == ApplyBalanceChanges(outs.deltas, 1, state.addressBalances,
                                           outs.counts)
              IN [state |-> [state EXCEPT !.addressBalances = r.balances,
                                          !.addressTxCounts = r.counts],
                  threw |-> FALSE]

(***************************************************************************)
(* The chain served by the indexer: block h is the same at every fetch.    *)
(***************************************************************************)
BlockTxs(h) ==
    CASE h = 1 -> << Tx(<<Coinbase>>, <<Entry("A", 5)>>) >>
      [] h = 2 -> << Tx(<<Coinbase>>, <<Entry("B", 5)>>),
                    Tx(<<Entry("A", 5)>>, <<Entry("C", 3)>>) >>
      [] h = 3 -> << Tx(<<Coinbase>>, <<Entry("A", 4)>>),
                    Tx(<<Entry("B", 5)>>, <<Entry("B", 2), Entry("C", 3)>>) >>
      [] OTHER -> << Tx(<<Coinbase>>, <<Entry("C", 1)>>) >>

\* A payload whose k-th transaction carries a first output that cannot be iterated.
MalformedAt(txs, k) ==
    [i \in 1..Len(txs) |->
        IF i = k
        THEN [txs[i] EXCEPT !.vout = <<Malformed(1)>> \o Tail(@)]
        ELSE txs[i]]

\* What fetchBlock(height) can settle with: a rejection (request failed after
\* ky's retries), the block, or a block with one malformed transaction.
GoodBlock(h) == [ok |-> TRUE, txs |-> BlockTxs(h)]

FetchBlockResults(h) ==
    {[ok |-> FALSE, txs |-> <<>>]}
    \cup {GoodBlock(h)}
    \cup {[ok |-> TRUE, txs |-> MalformedAt(BlockTxs(h), k)] : k \in 1..Len(BlockTxs(h))}

(***************************************************************************)
(* processBlock, after fetchBlock has resolved                             *)
(***************************************************************************)
RECURSIVE ProcessTxs(_, _, _)
ProcessTxs(txs, i, state) ==
    IF i > Len(txs) THEN [state |-> state, threw |-> FALSE]
    ELSE LET r == processTransaction(txs[i], state) IN
         IF r.threw THEN r ELSE ProcessTxs(txs, i + 1, r.state)

\* lastScannedBlock assigned before the transactions are applied
processBlockEager(h, txs, state) ==
    ProcessTxs(txs, 1, [state EXCEPT !.lastScannedBlock = h])

processBlock(h, txs, state) ==
    LET r == ProcessTxs(txs, 1, state) IN
    IF r.threw THEN r
    ELSE [state |-> [r.state EXCEPT !.lastScannedBlock = h], threw |-> FALSE]

(***************************************************************************)
(* The ledger that results from applying blocks 1..h in order              *)
(***************************************************************************)
RECURSIVE LedgerAt(_)
LedgerAt(h) ==
    IF h = 0 THEN FreshState
    ELSE processBlock(h, BlockTxs(h), LedgerAt(h - 1)).state

(***************************************************************************)
(* Documents on disk.  kind is "ENOENT" (no file), "json" (a complete      *)
(* document, in doc) or "partial" (truncated or garbled: JSON.parse        *)
(* throws).                                                                *)
(***************************************************************************)
NoDoc == [lastBlockHeight |-> 0, totalSupply |-> 0, totalAddresses |-> 0, addresses |-> <<>>]

Absent(blank) == [kind |-> "ENOENT", doc |-> blank]
Partial(blank) == [kind |-> "partial", doc |-> blank]
Json(d) == [kind |-> "json", doc |-> d]

\* saveScanState: the document handed to fs.writeFile
ScanStateData(state) ==
    ScanState(state.lastScannedBlock, state.addressBalances,
              state.addressTxCounts, state.totalSupply)

\* loadScanState
loadScanState(file) ==
    IF file.kind = "json"
    THEN ScanState(file.doc.lastScannedBlock, file.doc.addressBalances,
                   file.doc.addressTxCounts, file.doc.totalSupply)
    ELSE FreshState

(***************************************************************************)
(* generateRichList                                                        *)
(***************************************************************************)
\* Array.prototype.sort with (a, b) => b[1] - a[1]: stable, descending
RECURSIVE InsertDescending(_, _)
InsertDescending(sorted, e) ==
    IF sorted = <<>> THEN <<e>>
    ELSE IF Head(sorted)[2] >= e[2]
         THEN <<Head(sorted)>> \o InsertDescending(Tail(sorted), e)
         ELSE <<e>> \o sorted

RECURSIVE SortDescending(_, _, _)
SortDescending(entries, i, acc) ==
    IF i > Len(entries) THEN acc
    ELSE SortDescending(entries, i + 1, InsertDescending(acc, entries[i]))

\* the threshold test with > in place of >=
generateRichListStrictFilter(state, curHeight) ==
    LET allAddresses == state.addressBalances
        totalSupply == SumValues(allAddresses, 1)
        filtered == SelectSeq(allAddresses, LAMBDA e : e[2] > MIN_BALANCE)
        sortedAddresses == SortDescending(filtered, 1, <<>>)
        addresses == [i \in 1..Len(sortedAddresses) |->
                        [rank |-> i,
                         address |-> sortedAddresses[i][1],
                         balance |-> sortedAddresses[i][2],
                         percentage |-> IF totalSupply > 0
                                        THEN <<sortedAddresses[i][2] * 100, totalSupply>>
                                        ELSE <<0, 1>>,
                         txCount |-> MapGetOr0(state.addressTxCounts,
                                               sortedAddresses[i][1])]]
    IN [state |-> [state EXCEPT !.totalSupply = totalSupply],
        richList |-> [lastBlockHeight |-> curHeight,
                      totalSupply |-> totalSupply,
                      totalAddresses |-> Len(addresses),
                      addresses |-> addresses]]

\* the total taken after the threshold filter
generateRichListFilteredSupply(state, curHeight) ==
    LET allAddresses == state.addressBalances
        filtered == SelectSeq(allAddresses, LAMBDA e : e[2] >= MIN_BALANCE)
        totalSupply == SumValues(filtered, 1)
        sortedAddresses == SortDescending(filtered, 1, <<>>)
        addresses == [i \in 1..Len(sortedAddresses) |->
                        [rank |-> i,
                         address |-> sortedAddresses[i][1],
                         balance |-> sortedAddresses[i][2],
                         percentage |-> IF totalSupply > 0
                                        THEN <<sortedAddresses[i][2] * 100, totalSupply>>
                                        ELSE <<0, 1>>,
                         txCount |-> MapGetOr0(state.addressTxCounts,
                                               sortedAddresses[i][1])]]
    IN [state |-> [state EXCEPT !.totalSupply = totalSupply],
        richList |-> [lastBlockHeight |-> curHeight,
                      totalSupply |-> totalSupply,
                      totalAddresses |-> Len(addresses),
                      addresses |-> addresses]]

generateRichList(state, curHeight) ==
    LET allAddresses == state.addressBalances
        totalSupply == SumValues(allAddresses, 1)
        filtered == SelectSeq(allAddresses, LAMBDA e : e[2] >= MIN_BALANCE)
        sortedAddresses == SortDescending(filtered, 1, <<>>)
        addresses == [i \in 1..Len(sortedAddresses) |->
                        [rank |-> i,
                         address |-> sortedAddresses[i][1],
                         balance |-> sortedAddresses[i][2],
                         percentage |-> IF totalSupply > 0
                                        THEN <<sortedAddresses[i][2] * 100, totalSupply>>
                                        ELSE <<0, 1>>,
                         txCount |-> MapGetOr0(state.addressTxCounts,
                                               sortedAddresses[i][1])]]
    IN [state |-> [state EXCEPT !.totalSupply = totalSupply],
        richList |-> [lastBlockHeight |-> curHeight,
                      totalSupply |-> totalSupply,
                      totalAddresses |-> Len(addresses),
                      addresses |-> addresses]]

(***************************************************************************)
(* Strings that the code inspects are sequences of one-character strings.  *)
(***************************************************************************)
Str_localhost == <<"l", "o", "c", "a", "l", "h", "o", "s", "t">>
Str_127_0_0_1 == <<"1", "2", "7", ".", "0", ".", "0", ".", "1">>
Str_loopback6 == <<":", ":", "1">>
Str_flux == <<"f", "l", "u", "x">>
Str_http_10 == <<"h", "t", "t", "p", ":", "/", "/", "1", "0", ".">>
Str_http_192_168 ==
    <<"h", "t", "t", "p", ":", "/", "/", "1", "9", "2", ".", "1", "6", "8", ".">>
Str_http_172 == <<"h", "t", "t", "p", ":", "/", "/", "1", "7", "2", ".">>
Str_http_flux == <<"h", "t", "t", "p", ":", "/", "/", "f", "l", "u", "x">>
Str_local == <<"l", "o", "c", "a", "l">>
Str_public == <<"p", "u", "b", "l", "i", "c">>
Str_auto == <<"a", "u", "t", "o">>

\* String.prototype.startsWith
StartsWith(s, prefix) ==
    /\ Len(s) >= Len(prefix)
    /\ SubSeq(s, 1, Len(prefix)) = prefix

\* String.prototype.includes
Includes(s, sub) ==
    \E i \in 1..(Len(s) - Len(sub) + 1) : SubSeq(s, i, i + Len(sub) - 1) = sub

\* Numbers as JavaScript has them here: an integer or NaN
Num(n) == [nan |-> FALSE, n |-> n]
NaN == [nan |-> TRUE, n |-> 0]

DigitChars == <<"0", "1", "2", "3", "4", "5", "6", "7", "8", "9">>
IsDigit(c) == \E d \in 1..10 : DigitChars[d] = c
DigitValue(c) == (CHOOSE d \in 1..10 : DigitChars[d] = c) - 1

RECURSIVE ParseDigits(_, _, _)
ParseDigits(s, i, acc) ==
    IF i > Len(s) \/ ~IsDigit(s[i]) THEN acc
    ELSE ParseDigits(s, i + 1, acc * 10 + DigitValue(s[i]))

\* parseInt(string): leading blanks, an optional sign, then decimal digits up
\* to the first other character; NaN when there is no digit.  A value that is
\* undefined is converted to "undefined" first, which has no digit.
RECURSIVE parseInt(_)
parseInt(s) ==
    IF s = <<>> THEN NaN
    ELSE IF Head(s) = " " THEN parseInt(Tail(s))
    ELSE LET signed == Head(s) \in {"-", "+"}
             body == IF signed THEN Tail(s) ELSE s
         IN IF body = <<>> \/ ~IsDigit(Head(body)) THEN NaN
            ELSE IF Head(s) = "-" THEN Num(0 - ParseDigits(body, 1, 0))
            ELSE Num(ParseDigits(body, 1, 0))

\* A variable of process.env, or a query parameter: undefined or a string
Undefined == [set |-> FALSE, value |-> <<>>]
Text(s) == [set |-> TRUE, value |-> s]

\* JavaScript truthiness of a string-or-undefined value
Truthy(v) == v.set /\ v.value # <<>>

\* parseInt applied to a string-or-undefined value
parseIntOf(v) == IF v.set THEN parseInt(v.value) ELSE NaN

(***************************************************************************)
(* config.ts                                                               *)
(***************************************************************************)
LOCAL_CONFIG ==
    [timeout |-> Num(10000), retryLimit |-> Num(1), batchSize |-> Num(500),
     throttleDelay |-> Num(100), checkpointInterval |-> Num(5000),
     healthCheckInterval |-> Num(30000)]

PUBLIC_CONFIG ==
    [timeout |-> Num(60000), retryLimit |-> Num(3), batchSize |-> Num(50),
     throttleDelay |-> Num(2000), checkpointInterval |-> Num(1000),
     healthCheckInterval |-> Num(60000)]

ConfigFields ==
    {"timeout", "retryLimit", "batchSize", "throttleDelay", "checkpointInterval",
     "healthCheckInterval"}

\* setApiMode: the module state <<activeConfig, currentMode>> after the call
setApiMode(mode, config) ==
    CASE mode = "local" -> [activeConfig |-> LOCAL_CONFIG, currentMode |-> mode]
      [] mode = "public" -> [activeConfig |-> PUBLIC_CONFIG, currentMode |-> mode]
      [] OTHER -> [activeConfig |-> config, currentMode |-> mode]

\* { ...overrides, ...activeConfig }: the spread in the wrong order
overrideConfigReversed(config, overrides) == config

\* overrideConfig: { ...activeConfig, ...overrides }
overrideConfig(config, overrides) ==
    [f \in ConfigFields |-> IF f \in DOMAIN overrides THEN overrides[f] ELSE config[f]]

\* /^http:\/\/172\.(1[6-9]|2[0-9]|3[0-1])\./
Matches172(s) ==
    /\ StartsWith(s, Str_http_172)
    /\ Len(s) >= Len(Str_http_172) + 3
    /\ LET a == s[Len(Str_http_172) + 1]
           b == s[Len(Str_http_172) + 2]
       IN \/ a = "1" /\ b \in {"6", "7", "8", "9"}
          \/ a = "2" /\ IsDigit(b)
          \/ a = "3" /\ b \in {"0", "1"}
    /\ s[Len(Str_http_172) + 3] = "."

detectApiMode(apiUrl) ==
    IF \/ Includes(apiUrl, Str_localhost)
       \/ Includes(apiUrl, Str_127_0_0_1)
       \/ Includes(apiUrl, Str_loopback6)
       \/ Includes(apiUrl, Str_flux)
       \/ StartsWith(apiUrl, Str_http_10)
       \/ StartsWith(apiUrl, Str_http_192_168)
       \/ Matches172(apiUrl)
       \/ StartsWith(apiUrl, Str_http_flux)
    THEN "local"
    ELSE "public"

\* "http://fluxblockbook_explorertest2:9158/api/v2"
UrlDefault ==
    <<"h", "t", "t", "p", ":", "/", "/", "f", "l", "u", "x", "b", "l", "o",
      "c", "k", "b", "o", "o", "k", "_", "e", "x", "p", "l", "o", "r", "e",
      "r", "t", "e", "s", "t", "2", ":", "9", "1", "5", "8", "/", "a", "p",
      "i", "/", "v", "2">>

\* "http://localhost:9158/api/v2"
UrlLocalhost ==
    <<"h", "t", "t", "p", ":", "/", "/", "l", "o", "c", "a", "l", "h", "o",
      "s", "t", ":", "9", "1", "5", "8", "/", "a", "p", "i", "/", "v", "2">>

\* "http://127.0.0.1:9158/api/v2"
UrlLoopback4 ==
    <<"h", "t", "t", "p", ":", "/", "/", "1", "2", "7", ".", "0", ".", "0",
      ".", "1", ":", "9", "1", "5", "8", "/", "a", "p", "i", "/", "v", "2">>

\* "http://[::1]:9158/api/v2"
UrlLoopback6 ==
    <<"h", "t", "t", "p", ":", "/", "/", "[", ":", ":", "1", "]", ":", "9",
      "1", "5", "8", "/", "a", "p", "i", "/", "v", "2">>

\* "http://10.0.0.5:9158/api/v2"
UrlPrivate10 ==
    <<"h", "t", "t", "p", ":", "/", "/", "1", "0", ".", "0", ".", "0", ".",
      "5", ":", "9", "1", "5", "8", "/", "a", "p", "i", "/", "v", "2">>

\* "http://192.168.1.5:9158/api/v2"
UrlPrivate192 ==
    <<"h", "t", "t", "p", ":", "/", "/", "1", "9", "2", ".", "1", "6", "8",
      ".", "1", ".", "5", ":", "9", "1", "5", "8", "/", "a", "p", "i", "/",
      "v", "2">>

\* "http://172.17.0.2:9158/api/v2"
UrlPrivate172 ==
    <<"h", "t", "t", "p", ":", "/", "/", "1", "7", "2", ".", "1", "7", ".",
      "0", ".", "2", ":", "9", "1", "5", "8", "/", "a", "p", "i", "/", "v",
      "2">>

\* "http://172.32.0.2:9158/api/v2"
UrlPublic172 ==
    <<"h", "t", "t", "p", ":", "/", "/", "1", "7", "2", ".", "3", "2", ".",
      "0", ".", "2", ":", "9", "1", "5", "8", "/", "a", "p", "i", "/", "v",
      "2">>

\* "https://10.0.0.5/api/v2"
UrlPrivateTls ==
    <<"h", "t", "t", "p", "s", ":", "/", "/", "1", "0", ".", "0", ".", "0",
      ".", "5", "/", "a", "p", "i", "/", "v", "2">>

\* "https://blockbookflux.app.runonflux.io/api/v2"
UrlReadmePublic ==
    <<"h", "t", "t", "p", "s", ":", "/", "/", "b", "l", "o", "c", "k", "b",
      "o", "o", "k", "f", "l", "u", "x", ".", "a", "p", "p", ".", "r", "u",
      "n", "o", "n", "f", "l", "u", "x", ".", "i", "o", "/", "a", "p", "i",
      "/", "v", "2">>

\* "https://explorer.example.com/api/v2"
UrlInternet ==
    <<"h", "t", "t", "p", "s", ":", "/", "/", "e", "x", "p", "l", "o", "r",
      "e", "r", ".", "e", "x", "a", "m", "p", "l", "e", ".", "c", "o", "m",
      "/", "a", "p", "i", "/", "v", "2">>

\* the environment variables that become overrides, with the field each sets
OverrideVariables ==
    <<[name |-> "API_TIMEOUT", field |-> "timeout"],
      [name |-> "API_RETRY_LIMIT", field |-> "retryLimit"],
      [name |-> "BATCH_SIZE", field |-> "batchSize"],
      [name |-> "THROTTLE_DELAY", field |-> "throttleDelay"],
      [name |-> "CHECKPOINT_INTERVAL", field |-> "checkpointInterval"]>>

\* initializeConfig, lines 149-163: the overrides object
Overrides(e) ==
    LET supplied == {i \in 1..Len(OverrideVariables) : Truthy(e[OverrideVariables[i].name])}
        fieldOf == [f \in {OverrideVariables[i].field : i \in supplied} |->
                      CHOOSE i \in supplied : OverrideVariables[i].field = f]
    IN [f \in DOMAIN fieldOf |-> parseInt(e[OverrideVariables[fieldOf[f]].name].value)]

\* initializeConfig: the module state after the call
initializeConfig(e, config, mode) ==
    LET apiUrl == IF Truthy(e["BLOCKBOOK_API_URL"]) THEN e["BLOCKBOOK_API_URL"].value
                  ELSE UrlDefault
        manualMode == e["API_MODE"]
        selected == IF manualMode = Text(Str_local) THEN "local"
                    ELSE IF manualMode = Text(Str_public) THEN "public"
                    ELSE detectApiMode(apiUrl)
        afterMode == setApiMode(selected, config)
        overrides == Overrides(e)
    IN IF DOMAIN overrides # {}
       THEN [activeConfig |-> overrideConfig(afterMode.activeConfig, overrides),
             currentMode |-> afterMode.currentMode]
       ELSE afterMode

\* no variable set
NoEnv ==
    [BLOCKBOOK_API_URL |-> Undefined, API_MODE |-> Undefined, API_TIMEOUT |-> Undefined,
     API_RETRY_LIMIT |-> Undefined, BATCH_SIZE |-> Undefined,
     THROTTLE_DELAY |-> Undefined, CHECKPOINT_INTERVAL |-> Undefined]

(***************************************************************************)
(* Initial state: a new deployment, empty data directory                   *)
(***************************************************************************)
\* A query parameter is undefined or a string
NoQuery == [page |-> Undefined, pageSize |-> Undefined]

\* The JSON body of a response; a field the route does not send is left at its
\* value here, and listed tells whether the body carries an addresses array
NoBody ==
    [error |-> "", lastBlockHeight |-> 0, totalSupply |-> 0, totalAddresses |-> 0,
     page |-> 0, pageSize |-> 0, totalPages |-> 0, listed |-> FALSE, addresses |-> <<>>]

NoResponse == [endpoint |-> "none", query |-> NoQuery, status |-> 0, body |-> NoBody]

\* the state of a process that finds richListFile in the data directory, with
\* the given ledger, environment and configuration module state
StartState(file, led, e, config) ==
    /\ chainTip = 1
    /\ stateFile = Absent(FreshState)
    /\ richListFile = file
    /\ pc = [p \in Passes |-> "idle"]
    /\ st = [p \in Passes |-> FreshState]
    /\ currentHeight = [p \in Passes |-> 0]
    /\ height = [p \in Passes |-> 0]
    /\ blocksProcessed = [p \in Passes |-> 0]
    /\ overlapped = [p \in Passes |-> FALSE]
    /\ lastResponse = NoResponse
    /\ faults = 0
    /\ ledger = led
    /\ lastTx = Tx(<<>>, <<>>)
    /\ env = e
    /\ activeConfig = config.activeConfig
    /\ currentMode = config.currentMode

\* config.ts lines 56-57: the module state before initializeConfig is called
ModuleLoaded == [activeConfig |-> PUBLIC_CONFIG, currentMode |-> "public"]

\* index.ts has imported config.ts, which has called initializeConfig
Init ==
    StartState(Absent(NoDoc), FreshState, NoEnv,
               initializeConfig(NoEnv, ModuleLoaded.activeConfig, ModuleLoaded.currentMode))

\* invocations whose fs.writeFile on a file is in flight
StateWriters == {p \in Passes : pc[p] \in {"checkpointWrite", "catchWrite", "finalWrite"}}
RichListWriters == {p \in Passes : pc[p] = "richListWrite"}

\* the promise settles: "upToDate" (return at line 260), "completed" (end of
\* the function body) or "failed" (rejected); the locals keep their last values
Settle(p, outcome) ==
    /\ pc' = [pc EXCEPT ![p] = outcome]
    /\ UNCHANGED <<st, currentHeight, height, blocksProcessed>>

Settled == {"idle", "upToDate", "completed", "failed"}

\* a new invocation starts with fresh locals
Invoke(p) ==
    /\ pc' = [pc EXCEPT ![p] = "loadScanState"]
    /\ st' = [st EXCEPT ![p] = FreshState]
    /\ currentHeight' = [currentHeight EXCEPT ![p] = 0]
    /\ height' = [height EXCEPT ![p] = 0]
    /\ blocksProcessed' = [blocksProcessed EXCEPT ![p] = 0]

\* the loop test with < in place of <=: the last block is left out
NextIterationShort(p) ==
    /\ height' = [height EXCEPT ![p] = @ + 1]
    /\ pc' = [pc EXCEPT ![p] = IF height[p] + 1 < currentHeight[p]
                               THEN "processBlock" ELSE "finalOpen"]

\* for-loop increment and test (scanner.ts line 268)
NextIteration(p) ==
    /\ height' = [height EXCEPT ![p] = @ + 1]
    /\ pc' = [pc EXCEPT ![p] = IF height[p] + 1 <= currentHeight[p]
                               THEN "processBlock" ELSE "finalOpen"]

(***************************************************************************)
(* index.ts: the two triggers                                              *)
(***************************************************************************)
StartupScan ==
    /\ pc["startup"] = "idle"
    /\ Invoke("startup")
    /\ UNCHANGED <<chainTip, stateFile, richListFile, overlapped, lastResponse,
                   faults, ledger, lastTx, configVars>>

\* node-cron fires whether or not an earlier scan is still running; a tick that
\* comes while the previous scheduled scan runs is not modelled
CronScan ==
    /\ pc["cron"] \in Settled
    /\ Invoke("cron")
    /\ UNCHANGED <<chainTip, stateFile, richListFile, overlapped,
                   lastResponse, faults, ledger, lastTx, configVars>>

(***************************************************************************)
(* scanBlockchain, one action per await                                    *)
(***************************************************************************)
\* loadScanState catching ENOENT only: a document that does not parse makes
\* the invocation reject
LoadScanStateRethrow(p) ==
    /\ pc[p] = "loadScanState"
    /\ IF stateFile.kind = "partial"
       THEN Settle(p, "failed")
       ELSE /\ st' = [st EXCEPT ![p] = loadScanState(stateFile)]
            /\ pc' = [pc EXCEPT ![p] = "getCurrentHeight"]
            /\ UNCHANGED <<currentHeight, height, blocksProcessed>>
    /\ UNCHANGED <<chainTip, stateFile, richListFile, overlapped, lastResponse, faults,
                   ledger, lastTx, configVars>>

LoadScanState(p) ==
    /\ pc[p] = "loadScanState"
    /\ st' = [st EXCEPT ![p] = loadScanState(stateFile)]
    /\ pc' = [pc EXCEPT ![p] = "getCurrentHeight"]
    /\ UNCHANGED <<chainTip, stateFile, richListFile, currentHeight, height,
                   blocksProcessed, overlapped, lastResponse, faults, ledger, lastTx, configVars>>

\* the up-to-date test with > in place of >=
AfterHeightStrict(p, H) ==
    IF st[p].lastScannedBlock > H
    THEN Settle(p, "upToDate")
    ELSE /\ currentHeight' = [currentHeight EXCEPT ![p] = H]
         /\ height' = [height EXCEPT ![p] = st[p].lastScannedBlock + 1]
         /\ blocksProcessed' = [blocksProcessed EXCEPT ![p] = 0]
         /\ pc' = [pc EXCEPT ![p] = IF st[p].lastScannedBlock + 1 <= H
                                    THEN "processBlock" ELSE "finalOpen"]
         /\ st' = st

AfterHeight(p, H) ==
    IF st[p].lastScannedBlock >= H
    THEN Settle(p, "upToDate")
    ELSE /\ currentHeight' = [currentHeight EXCEPT ![p] = H]
         /\ height' = [height EXCEPT ![p] = st[p].lastScannedBlock + 1]
         /\ blocksProcessed' = [blocksProcessed EXCEPT ![p] = 0]
         /\ pc' = [pc EXCEPT ![p] = IF st[p].lastScannedBlock + 1 <= H
                                    THEN "processBlock" ELSE "finalOpen"]
         /\ st' = st

GetCurrentHeight(p) ==
    /\ pc[p] = "getCurrentHeight"
    /\ \E ok \in (IF faults < MaxFaults THEN BOOLEAN ELSE {TRUE}) :
         /\ faults' = IF ok THEN faults ELSE faults + 1
         /\ IF ok THEN AfterHeight(p, chainTip) ELSE Settle(p, "failed")
    /\ UNCHANGED <<chainTip, stateFile, richListFile, overlapped,
                   lastResponse, ledger, lastTx, configVars>>

\* the throttle test first and the checkpoint test in its else branch
AfterBlockThrottleFirst(p, processed) ==
    IF processed % BATCH_SIZE = 0
    THEN /\ pc' = [pc EXCEPT ![p] = "throttle"]
         /\ height' = height
    ELSE IF processed % CHECKPOINT_INTERVAL = 0
    THEN /\ pc' = [pc EXCEPT ![p] = "checkpointOpen"]
         /\ height' = height
    ELSE NextIteration(p)

\* scanner.ts 271-288 after processBlock resolved: which await comes next
AfterBlock(p, processed) ==
    IF processed % CHECKPOINT_INTERVAL = 0
    THEN /\ pc' = [pc EXCEPT ![p] = "checkpointOpen"]
         /\ height' = height
    ELSE IF processed % BATCH_SIZE = 0
    THEN /\ pc' = [pc EXCEPT ![p] = "throttle"]
         /\ height' = height
    ELSE NextIteration(p)

ProcessBlock(p) ==
    /\ pc[p] = "processBlock"
    /\ \E res \in FetchBlockResults(height[p]) :
         /\ (res = GoodBlock(height[p]) \/ faults < MaxFaults)
         /\ faults' = IF res = GoodBlock(height[p]) THEN faults ELSE faults + 1
         /\ \E r \in {IF res.ok THEN processBlock(height[p], res.txs, st[p])
                       ELSE [state |-> st[p], threw |-> TRUE]} :
               /\ st' = [st EXCEPT ![p] = r.state]
               /\ IF r.threw
                  THEN /\ pc' = [pc EXCEPT ![p] = "catchOpen"]
                       /\ UNCHANGED <<height, blocksProcessed>>
                  ELSE /\ blocksProcessed' = [blocksProcessed EXCEPT ![p] = @ + 1]
                       /\ AfterBlock(p, blocksProcessed[p] + 1)
    /\ UNCHANGED <<chainTip, stateFile, richListFile, currentHeight, overlapped,
                   lastResponse, ledger, lastTx, configVars>>

\* fs.writeFile(STATE_FILE) opens the file with flag 'w': it is truncated first
SaveScanStateOpen(p) ==
    /\ pc[p] \in {"checkpointOpen", "catchOpen", "finalOpen"}
    /\ stateFile' = Partial(FreshState)
    /\ pc' = [pc EXCEPT ![p] = CASE pc[p] = "checkpointOpen" -> "checkpointWrite"
                                 [] pc[p] = "catchOpen" -> "catchWrite"
                                 [] pc[p] = "finalOpen" -> "finalWrite"]
    /\ overlapped' = [q \in Passes |->
                        IF q = p THEN StateWriters # {}
                        ELSE IF q \in StateWriters THEN TRUE ELSE overlapped[q]]
    /\ UNCHANGED <<chainTip, richListFile, st, currentHeight, height, blocksProcessed,
                   lastResponse, faults, ledger, lastTx, configVars>>

\* the throttle test in the else branch of the checkpoint test
AfterSaveSkipsThrottle(p) ==
    CASE pc[p] = "checkpointWrite" ->
           /\ st' = st /\ currentHeight' = currentHeight
           /\ blocksProcessed' = blocksProcessed
           /\ NextIteration(p)
      [] pc[p] = "catchWrite" -> Settle(p, "failed")
      [] pc[p] = "finalWrite" ->
           /\ st' = [st EXCEPT ![p] = generateRichList(st[p], currentHeight[p]).state]
           /\ pc' = [pc EXCEPT ![p] = "richListOpen"]
           /\ UNCHANGED <<currentHeight, height, blocksProcessed>>

\* what follows the await of saveScanState at each of its three call sites
AfterSave(p) ==
    CASE pc[p] = "checkpointWrite" ->
           /\ st' = st /\ currentHeight' = currentHeight
           /\ blocksProcessed' = blocksProcessed
           /\ IF blocksProcessed[p] % BATCH_SIZE = 0
              THEN pc' = [pc EXCEPT ![p] = "throttle"] /\ height' = height
              ELSE NextIteration(p)
      [] pc[p] = "catchWrite" -> Settle(p, "failed")
      [] pc[p] = "finalWrite" ->
           /\ st' = [st EXCEPT ![p] = generateRichList(st[p], currentHeight[p]).state]
           /\ pc' = [pc EXCEPT ![p] = "richListOpen"]
           /\ UNCHANGED <<currentHeight, height, blocksProcessed>>

\* the write lands and the promise resolves; two writes in flight on the same
\* file race, and the content left behind may be either complete or garbled
SaveScanStateWrite(p) ==
    /\ pc[p] \in {"checkpointWrite", "catchWrite", "finalWrite"}
    /\ \E garbled \in (IF overlapped[p] THEN BOOLEAN ELSE {FALSE}) :
         stateFile' = IF garbled THEN Partial(FreshState)
                      ELSE Json(ScanStateData(st[p]))
    /\ overlapped' = [q \in Passes |->
                        IF q = p THEN FALSE
                        ELSE IF q \in StateWriters THEN TRUE ELSE overlapped[q]]
    /\ AfterSave(p)
    /\ UNCHANGED <<chainTip, richListFile, lastResponse, faults, ledger, lastTx, configVars>>

\* the chain height read again after each pause
ThrottleRereadsHeight(p) ==
    /\ pc[p] = "throttle"
    /\ currentHeight' = [currentHeight EXCEPT ![p] = chainTip]
    /\ height' = [height EXCEPT ![p] = @ + 1]
    /\ pc' = [pc EXCEPT ![p] = IF height[p] + 1 <= chainTip
                               THEN "processBlock" ELSE "finalOpen"]
    /\ UNCHANGED <<chainTip, stateFile, richListFile, st, blocksProcessed,
                   overlapped, lastResponse, faults, ledger, lastTx, configVars>>

Throttle(p) ==
    /\ pc[p] = "throttle"
    /\ NextIteration(p)
    /\ UNCHANGED <<chainTip, stateFile, richListFile, st, currentHeight, blocksProcessed,
                   overlapped, lastResponse, faults, ledger, lastTx, configVars>>

\* fs.writeFile(RICH_LIST_FILE): truncate, then write
RichListOpen(p) ==
    /\ pc[p] = "richListOpen"
    /\ richListFile' = Partial(NoDoc)
    /\ pc' = [pc EXCEPT ![p] = "richListWrite"]
    /\ overlapped' = [q \in Passes |->
                        IF q = p THEN RichListWriters # {}
                        ELSE IF q \in RichListWriters THEN TRUE ELSE overlapped[q]]
    /\ UNCHANGED <<chainTip, stateFile, st, currentHeight, height, blocksProcessed,
                   lastResponse, faults, ledger, lastTx, configVars>>

RichListWrite(p) ==
    /\ pc[p] = "richListWrite"
    /\ \E garbled \in (IF overlapped[p] THEN BOOLEAN ELSE {FALSE}) :
         richListFile' = IF garbled THEN Partial(NoDoc)
                         ELSE Json(generateRichList(st[p], currentHeight[p]).richList)
    /\ overlapped' = [q \in Passes |->
                        IF q = p THEN FALSE
                        ELSE IF q \in RichListWriters THEN TRUE ELSE overlapped[q]]
    /\ Settle(p, "completed")
    /\ UNCHANGED <<chainTip, stateFile, lastResponse, faults, ledger, lastTx, configVars>>

(***************************************************************************)
(* Environment: the chain grows; the process is stopped and started again  *)
(***************************************************************************)
NewBlock ==
    /\ chainTip < MaxHeight
    /\ chainTip' = chainTip + 1
    /\ UNCHANGED <<stateFile, richListFile, pc, st, currentHeight, height,
                   blocksProcessed, overlapped, lastResponse, faults, ledger, lastTx, configVars>>

\* index.ts 51-59: process.exit(0) on SIGTERM/SIGINT, then a new process
Shutdown ==
    /\ pc' = [p \in Passes |-> "idle"]
    /\ st' = [p \in Passes |-> FreshState]
    /\ currentHeight' = [p \in Passes |-> 0]
    /\ height' = [p \in Passes |-> 0]
    /\ blocksProcessed' = [p \in Passes |-> 0]
    /\ overlapped' = [p \in Passes |-> FALSE]
    /\ UNCHANGED <<chainTip, stateFile, richListFile, lastResponse, faults, ledger, lastTx, configVars>>

(***************************************************************************)
(* server.ts: each snapshot route reads and parses rich-list.json; the     *)
(* status is 200 when it parses, 404 on ENOENT and 500 on any other error  *)
(***************************************************************************)
\* a route that answers a missing file with an empty default list
ReadRichListFileDefault(file) ==
    CASE file.kind = "json" -> 200
      [] file.kind = "ENOENT" -> 200
      [] OTHER -> 500

ReadRichListFile(file) ==
    CASE file.kind = "json" -> 200
      [] file.kind = "ENOENT" -> 404
      [] OTHER -> 500

\* the body sent from the catch block
ErrorBody(status) ==
    [NoBody EXCEPT !.error = IF status = 404 THEN "Rich list not yet generated"
                             ELSE "Internal server error"]

\* res.json(richList)
RichListBody(richList) ==
    [NoBody EXCEPT !.lastBlockHeight = richList.lastBlockHeight,
                   !.totalSupply = richList.totalSupply,
                   !.totalAddresses = richList.totalAddresses,
                   !.listed = TRUE,
                   !.addresses = richList.addresses]

MetadataBody(richList) ==
    [NoBody EXCEPT !.lastBlockHeight = richList.lastBlockHeight,
                   !.totalSupply = richList.totalSupply,
                   !.totalAddresses = richList.totalAddresses]

DefaultPageSize == 100
MaxPageSize == 1000

\* parseInt(x) || d: NaN and 0 are falsy
OrDefault(number, d) == IF number.nan \/ number.n = 0 THEN d ELSE number.n

Min(a, b) == IF a <= b THEN a ELSE b
Max(a, b) == IF a >= b THEN a ELSE b

\* Array.prototype.slice(start, end): a negative index counts from the end
Slice(array, start, end) ==
    LET len == Len(array)
        from == IF start < 0 THEN Max(len + start, 0) ELSE Min(start, len)
        to == IF end < 0 THEN Max(len + end, 0) ELSE Min(end, len)
    IN IF from < to THEN SubSeq(array, from + 1, to) ELSE <<>>

\* Math.ceil(n / d) for n >= 0 and d # 0
CeilDiv(n, d) ==
    IF d > 0 THEN (n + d - 1) \div d ELSE 0 - (n \div (0 - d))

PaginatedBody(richList, query) ==
    LET page == OrDefault(parseIntOf(query.page), 1)
        pageSize == Min(OrDefault(parseIntOf(query.pageSize), DefaultPageSize), MaxPageSize)
        startIndex == (page - 1) * pageSize
        endIndex == startIndex + pageSize
    IN [NoBody EXCEPT !.lastBlockHeight = richList.lastBlockHeight,
                      !.totalSupply = richList.totalSupply,
                      !.totalAddresses = richList.totalAddresses,
                      !.page = page,
                      !.pageSize = pageSize,
                      !.totalPages = CeilDiv(Len(richList.addresses), pageSize),
                      !.listed = TRUE,
                      !.addresses = Slice(richList.addresses, startIndex, endIndex)]

ServeRichList ==
    /\ \E status \in {ReadRichListFile(richListFile)} :
         lastResponse' = [endpoint |-> "/rich-list", query |-> NoQuery, status |-> status,
                          body |-> IF status = 200 THEN RichListBody(richListFile.doc)
                                   ELSE ErrorBody(status)]
    /\ UNCHANGED <<chainTip, stateFile, richListFile, pc, st, currentHeight, height,
                   blocksProcessed, overlapped, faults, ledger, lastTx, configVars>>

ServeMetadata ==
    /\ \E status \in {ReadRichListFile(richListFile)} :
         lastResponse' = [endpoint |-> "/rich-list/metadata", query |-> NoQuery,
                          status |-> status,
                          body |-> IF status = 200 THEN MetadataBody(richListFile.doc)
                                   ELSE ErrorBody(status)]
    /\ UNCHANGED <<chainTip, stateFile, richListFile, pc, st, currentHeight, height,
                   blocksProcessed, overlapped, faults, ledger, lastTx, configVars>>

ServePaginated(query) ==
    /\ \E status \in {ReadRichListFile(richListFile)} :
         lastResponse' = [endpoint |-> "/rich-list/paginated", query |-> query,
                          status |-> status,
                          body |-> IF status = 200
                                   THEN PaginatedBody(richListFile.doc, query)
                                   ELSE ErrorBody(status)]
    /\ UNCHANGED <<chainTip, stateFile, richListFile, pc, st, currentHeight, height,
                   blocksProcessed, overlapped, faults, ledger, lastTx, configVars>>

Next ==
    \/ StartupScan
    \/ CronScan
    \/ \E p \in Passes : LoadScanState(p)
    \/ \E p \in Passes : GetCurrentHeight(p)
    \/ \E p \in Passes : ProcessBlock(p)
    \/ \E p \in Passes : SaveScanStateOpen(p)
    \/ \E p \in Passes : SaveScanStateWrite(p)
    \/ \E p \in Passes : Throttle(p)
    \/ \E p \in Passes : RichListOpen(p)
    \/ \E p \in Passes : RichListWrite(p)
    \/ NewBlock
    \/ Shutdown

Spec == Init /\ [][Next]_vars

(***************************************************************************)
(* The snapshot server next to the scanner.  The server only reads, so the *)
(* scanner does not depend on it; here it runs next to the startup scan,   *)
(* scheduled scans that find the startup scan settled, and restarts.       *)
(***************************************************************************)
CronAfterStartup ==
    /\ pc["startup"] \in Settled \ {"idle"}
    /\ CronScan

NextServe ==
    \/ StartupScan
    \/ CronAfterStartup
    \/ \E p \in Passes : LoadScanState(p)
    \/ \E p \in Passes : GetCurrentHeight(p)
    \/ \E p \in Passes : ProcessBlock(p)
    \/ \E p \in Passes : SaveScanStateOpen(p)
    \/ \E p \in Passes : SaveScanStateWrite(p)
    \/ \E p \in Passes : Throttle(p)
    \/ \E p \in Passes : RichListOpen(p)
    \/ \E p \in Passes : RichListWrite(p)
    \/ NewBlock
    \/ Shutdown
    \/ ServeRichList
    \/ ServeMetadata
    \/ ServePaginated(NoQuery)

SpecServe == Init /\ [][NextServe]_vars

(***************************************************************************)
(* One invocation after the other, with progress: every await of an        *)
(* invocation settles.  The indexer requests settle because ky resolves,   *)
(* rejects or times out after config.timeout; the file writes and the      *)
(* setTimeout of the throttle settle on the event loop.                    *)
(***************************************************************************)
NextFair ==
    \/ StartupScan
    \/ CronAfterStartup
    \/ \E p \in Passes : LoadScanState(p)
    \/ \E p \in Passes : GetCurrentHeight(p)
    \/ \E p \in Passes : ProcessBlock(p)
    \/ \E p \in Passes : SaveScanStateOpen(p)
    \/ \E p \in Passes : SaveScanStateWrite(p)
    \/ \E p \in Passes : Throttle(p)
    \/ \E p \in Passes : RichListOpen(p)
    \/ \E p \in Passes : RichListWrite(p)
    \/ NewBlock

\* the awaits of an invocation other than the fetch of a block
PassStep(p) ==
    \/ LoadScanState(p)
    \/ GetCurrentHeight(p)
    \/ SaveScanStateOpen(p)
    \/ SaveScanStateWrite(p)
    \/ Throttle(p)
    \/ RichListOpen(p)
    \/ RichListWrite(p)

\* WF_vars(ProcessBlock(p)), with ENABLED <<ProcessBlock(p)>>_vars written out:
\* the step is possible exactly while the invocation awaits processBlock
BlockSettles(p) ==
    []<>(pc[p] # "processBlock") \/ []<><<ProcessBlock(p)>>_vars

SpecFair ==
    /\ Init /\ [][NextFair]_vars
    /\ \A p \in Passes : WF_vars(PassStep(p)) /\ BlockSettles(p)

(***************************************************************************)
(* The ledger alone: processTransaction applied to arbitrary transactions, *)
(* starting from the empty ledger.  Inputs are not checked against the     *)
(* balance they spend, as in the code.                                     *)
(***************************************************************************)
LedgerAddresses == {"A", "B"}

NoValue(addr) == [coinbase |-> FALSE, addrKind |-> "list", addresses |-> <<addr>>,
                  hasValue |-> FALSE, value |-> 0]

LedgerEntries == {Entry(a, v) : a \in LedgerAddresses, v \in 1..MaxValue}

EntryLists ==
    {<<>>} \cup {<<e>> : e \in LedgerEntries \cup {NoValue("A")}}
           \cup {<<Entry(a, 1), Entry(b, 1)>> : a \in LedgerAddresses, b \in LedgerAddresses}

TxUniverse ==
    {Tx(vin, vout) : vin \in EntryLists \cup {<<Coinbase>>, <<CoinbaseNaming("A", 1)>>},
                     vout \in EntryLists}

ApplyTransaction ==
    /\ \E tx \in TxUniverse :
         \E r \in {processTransaction(tx, ledger)} :
         /\ ~r.threw
         /\ SumValues(r.state.addressBalances, 1) <= MaxLedgerTotal
         /\ \A i \in 1..Len(r.state.addressTxCounts) :
                r.state.addressTxCounts[i][2] <= MaxTxCount
         /\ ledger' = r.state
         /\ lastTx' = tx
    /\ UNCHANGED <<scanVars, configVars>>

NextLedger == ApplyTransaction

SpecLedger == Init /\ [][NextLedger]_vars

(***************************************************************************)
(* The ledger with calls that throw: a payload with an addresses field     *)
(* that cannot be iterated makes processTransaction throw part-way, and    *)
(* the state object it was mutating stays in use (the catch block of       *)
(* scanBlockchain saves it and the next invocation loads it).              *)
(***************************************************************************)
MalformedTxs ==
    {Tx(vin, <<Entry(a, 1), Malformed(1)>>) : vin \in {<<>>, <<Coinbase>>},
                                             a \in LedgerAddresses}
      \cup {Tx(<<Entry(a, 1)>>, <<Malformed(1)>>) : a \in LedgerAddresses}

ThrowingTransaction ==
    /\ \E tx \in MalformedTxs :
         \E r \in {processTransaction(tx, ledger)} :
         /\ r.threw
         /\ \A i \in 1..Len(r.state.addressTxCounts) :
                r.state.addressTxCounts[i][2] <= MaxTxCount
         /\ ledger' = r.state
         /\ lastTx' = tx
    /\ UNCHANGED <<scanVars, configVars>>

NextLedgerThrows == ApplyTransaction \/ ThrowingTransaction

SpecLedgerThrows == Init /\ [][NextLedgerThrows]_vars

(***************************************************************************)
(* The configuration module alone: config.ts is loaded under some          *)
(* environment (lines 56-57), then initializeConfig is called: once by     *)
(* config.ts itself (line 171) and again by scanner.ts (line 23).          *)
(***************************************************************************)
Str_abc == <<"a", "b", "c">>
Str_0 == <<"0">>
Str_minus5 == <<"-", "5">>
Str_25 == <<"2", "5">>
Str_30s == <<"3", "0", "s">>
Str_7 == <<"7">>

Urls ==
    {UrlDefault, UrlLocalhost, UrlLoopback4, UrlLoopback6, UrlPrivate10, UrlPrivate192,
     UrlPrivate172, UrlPublic172, UrlPrivateTls, UrlReadmePublic, UrlInternet}

Envs ==
    [BLOCKBOOK_API_URL : {Undefined} \cup {Text(u) : u \in Urls},
     API_MODE : {Undefined, Text(Str_local), Text(Str_public), Text(Str_auto)},
     API_TIMEOUT : {Undefined, Text(<<>>), Text(Str_abc), Text(Str_0), Text(Str_minus5),
                    Text(Str_25), Text(Str_30s)},
     API_RETRY_LIMIT : {Undefined, Text(Str_7)},
     BATCH_SIZE : {Undefined, Text(Str_7)},
     THROTTLE_DELAY : {Undefined, Text(Str_7)},
     CHECKPOINT_INTERVAL : {Undefined, Text(Str_7), Text(Str_0)}]

InitConfig ==
    \E e \in Envs : StartState(Absent(NoDoc), FreshState, e, ModuleLoaded)

InitializeConfig ==
    /\ \E r \in {initializeConfig(env, activeConfig, currentMode)} :
         /\ activeConfig' = r.activeConfig
         /\ currentMode' = r.currentMode
    /\ UNCHANGED <<scanVars, ledger, lastTx, env>>

NextConfig == InitializeConfig

SpecConfig == InitConfig /\ [][NextConfig]_vars

(***************************************************************************)
(* generateRichList alone, applied to a ledger drawn from the ledgers of   *)
(* up to three addresses; the snapshot it returns is written as in         *)
(* scanBlockchain lines 303-304.                                           *)
(***************************************************************************)
MaxBalance == 4

RichListAddresses == {"A", "B", "C"}

\* Maps over the addresses in every insertion order
RECURSIVE MapsOver(_, _)
MapsOver(addrs, values) ==
    IF addrs = {} THEN {<<>>}
    ELSE UNION {{<<<<a, v>>>> \o m : m \in MapsOver(addrs \ {a}, values), v \in values}
                : a \in addrs}

\* every address of the ledger has been counted once
RichListInputs ==
    {ScanState(1, b, [i \in 1..Len(b) |-> <<b[i][1], 1>>], 0) :
        b \in UNION {MapsOver(addrs, 1..MaxBalance) : addrs \in SUBSET RichListAddresses}}

InitRichList ==
    \E led \in RichListInputs :
        StartState(Absent(NoDoc), led, NoEnv,
                   initializeConfig(NoEnv, ModuleLoaded.activeConfig,
                                    ModuleLoaded.currentMode))

GenerateRichList ==
    /\ richListFile.kind = "ENOENT"
    /\ \E r \in {generateRichList(ledger, ledger.lastScannedBlock)} :
         /\ ledger' = r.state
         /\ richListFile' = Json(r.richList)
    /\ UNCHANGED <<chainTip, stateFile, pc, st, currentHeight, height, blocksProcessed,
                   overlapped, lastResponse, faults, lastTx, configVars>>

NextRichList == GenerateRichList

SpecRichList == InitRichList /\ [][NextRichList]_vars

(***************************************************************************)
(* The snapshot routes alone: the server finds some rich-list.json in the  *)
(* data directory (none, one that does not parse, or a snapshot of n       *)
(* addresses) and answers requests.                                        *)
(***************************************************************************)
MaxAddresses == 1002

Str_minus1 == <<"-", "1">>
Str_1 == <<"1">>
Str_2 == <<"2">>
Str_3 == <<"3">>
Str_4 == <<"4">>
Str_100 == <<"1", "0", "0">>
Str_1000 == <<"1", "0", "0", "0">>
Str_1001 == <<"1", "0", "0", "1">>

PageParams ==
    {Undefined, Text(Str_abc), Text(Str_0), Text(Str_minus1), Text(Str_1), Text(Str_2),
     Text(Str_3), Text(Str_4)}

PageSizeParams ==
    {Undefined, Text(Str_abc), Text(Str_0), Text(Str_minus1), Text(Str_minus5),
     Text(Str_100), Text(Str_1000), Text(Str_1001)}

Queries == [page : PageParams, pageSize : PageSizeParams]

\* a snapshot of n addresses as generateRichList writes it, all at the minimum
SnapshotOf(n) ==
    [lastBlockHeight |-> 1,
     totalSupply |-> n * MIN_BALANCE,
     totalAddresses |-> n,
     addresses |-> [i \in 1..n |->
                      [rank |-> i, address |-> ToString(i), balance |-> MIN_BALANCE,
                       percentage |-> <<MIN_BALANCE * 100, n * MIN_BALANCE>>,
                       txCount |-> 1]]]

SnapshotSizes == {0, 3, 250, MaxAddresses}

RouteFiles ==
    {Absent(NoDoc), Partial(NoDoc)} \cup {Json(SnapshotOf(n)) : n \in SnapshotSizes}

InitRoutes ==
    \E file \in RouteFiles :
        StartState(file, FreshState, NoEnv,
                   initializeConfig(NoEnv, ModuleLoaded.activeConfig,
                                    ModuleLoaded.currentMode))

NextRoutes ==
    \/ ServeRichList
    \/ ServeMetadata
    \/ \E query \in Queries : ServePaginated(query)

SpecRoutes == InitRoutes /\ [][NextRoutes]_vars

(***************************************************************************)
(* The scanner with an operator who deletes rich-list.json by hand while   *)
(* the process keeps running: the startup scan, then scheduled scans one   *)
(* after the other.                                                        *)
(***************************************************************************)
\* the file is removed between two passes
DeleteSnapshot ==
    /\ \A p \in Passes : pc[p] \in Settled
    /\ richListFile.kind = "json"
    /\ richListFile' = Absent(NoDoc)
    /\ UNCHANGED <<chainTip, stateFile, pc, st, currentHeight, height, blocksProcessed,
                   overlapped, lastResponse, faults, ledger, lastTx, configVars>>

NextRegenerate ==
    \/ StartupScan
    \/ CronAfterStartup
    \/ \E p \in Passes : LoadScanState(p)
    \/ \E p \in Passes : GetCurrentHeight(p)
    \/ \E p \in Passes : ProcessBlock(p)
    \/ \E p \in Passes : SaveScanStateOpen(p)
    \/ \E p \in Passes : SaveScanStateWrite(p)
    \/ \E p \in Passes : Throttle(p)
    \/ \E p \in Passes : RichListOpen(p)
    \/ \E p \in Passes : RichListWrite(p)
    \/ NewBlock
    \/ DeleteSnapshot

SpecRegenerate == Init /\ [][NextRegenerate]_vars

(***************************************************************************)
(* Properties                                                              *)
(***************************************************************************)
Active == {p \in Passes : pc[p] \notin Settled}

\* C1: at most one scanBlockchain invocation is between its start and its
\* return or throw at any time.
AtMostOneScanActive == Cardinality(Active) <= 1

\* C2: the persisted lastScannedBlock never decreases: once an invocation has
\* completed after persisting height h, every complete checkpoint document found
\* on disk holds a height of at least h.
CheckpointHeightNeverDecreases ==
    \A p \in Passes :
        (pc[p] = "completed" /\ stateFile.kind = "json")
            => stateFile.doc.lastScannedBlock >= st[p].lastScannedBlock

\* C3: every persisted checkpoint pairs its height h with the ledger obtained by
\* applying every transaction of blocks 1..h, in order, each exactly once.
CheckpointLedgerMatchesHeight ==
    stateFile.kind = "json" =>
        /\ stateFile.doc.addressBalances =
              LedgerAt(stateFile.doc.lastScannedBlock).addressBalances
        /\ stateFile.doc.addressTxCounts =
              LedgerAt(stateFile.doc.lastScannedBlock).addressTxCounts

SnapshotOnlyByCompletePass ==
    [][/\ richListFile' # richListFile
            => \E p \in Passes :
                  /\ pc[p] \in {"richListOpen", "richListWrite"}
                  /\ pc'[p] \in {"richListWrite", "completed"}
                  /\ st[p].lastScannedBlock = currentHeight[p]
       /\ \A p \in Passes :
            /\ (pc'[p] = "failed" /\ pc[p] # "failed") => richListFile' = richListFile
            /\ pc[p] \in {"richListOpen", "richListWrite"} => pc'[p] # "failed"
      ]_vars

FailedPassKeptSnapshot ==
    \E p \in Passes :
        /\ pc[p] = "failed"
        /\ height[p] >= 1
        /\ richListFile.kind = "json"
        /\ richListFile.doc.lastBlockHeight < height[p]

\* C6: an invocation that reads a chain height H <= the loaded lastScannedBlock
\* returns without error and none of its steps writes the checkpoint or the
\* snapshot document.
UpToDatePassChangesNothing ==
    [][\A p \in Passes :
        /\ (/\ pc[p] = "getCurrentHeight"
            /\ pc'[p] \notin {"getCurrentHeight", "failed", "idle"}
            /\ chainTip <= st[p].lastScannedBlock)
              => pc'[p] = "upToDate"
        /\ (pc[p] \in {"loadScanState", "getCurrentHeight"} /\ pc'[p] # pc[p])
              => /\ stateFile' = stateFile
                 /\ richListFile' = richListFile
        /\ (pc'[p] = "upToDate" /\ pc[p] # "upToDate")
              => (pc[p] = "getCurrentHeight" /\ st'[p] = st[p])
      ]_vars

UpToDateWitness ==
    \E p \in Passes :
        /\ pc[p] = "upToDate"
        /\ st[p].lastScannedBlock >= 1
        /\ stateFile = Json(ScanStateData(st[p]))
        /\ richListFile.kind = "json"

\* C7: a snapshot request never fails because of a scan in progress: it is
\* answered 200 from a complete snapshot or 404, never with an error.
SnapshotRequestNeverFails == lastResponse.status # 500

\* C8: the checkpoint document is never observed half written: no
\* loadScanState reads a document that cannot be parsed.
LoadNeverSeesPartialCheckpoint ==
    [][\A p \in Passes :
        (pc[p] = "loadScanState" /\ pc'[p] = "getCurrentHeight")
            => stateFile.kind # "partial"]_vars

\* C9: starting from the empty ledger, after any sequence of processTransaction
\* calls every address in addressBalances has a balance > 0.
LedgerBalancesPositive ==
    \A i \in 1..Len(ledger.addressBalances) : ledger.addressBalances[i][2] > 0

\* the last transaction spent from A, A's computed balance was <= 0 and A is gone
SpentAddressRemoved ==
    /\ \E i \in 1..Len(lastTx.vin) :
           lastTx.vin[i].hasValue /\ lastTx.vin[i].addresses = <<"A">>
    /\ ~MapHas(ledger.addressBalances, "A")
    /\ MapHas(ledger.addressBalances, "B")

\* C10: in every persisted checkpoint, totalSupply equals the sum of the
\* balances stored in that checkpoint.
CheckpointSupplyIsSumOfBalances ==
    stateFile.kind = "json" =>
        stateFile.doc.totalSupply = SumValues(stateFile.doc.addressBalances, 1)

\* C11: when the checkpoint document is absent or cannot be parsed, loading
\* does not fail the invocation: loadScanState yields height 0 with empty
\* balance and count maps and total supply 0, and the invocation, once it has
\* read a chain height of at least 1, goes on to block 1.
UnreadableCheckpointStartsFresh ==
    [][\A p \in Passes :
        /\ (pc[p] = "loadScanState" /\ pc'[p] # "loadScanState" /\ stateFile.kind # "json")
              => /\ pc'[p] \in {"getCurrentHeight", "idle"}
                 /\ pc'[p] = "getCurrentHeight" =>
                       /\ st'[p].lastScannedBlock = 0
                       /\ st'[p].addressBalances = <<>>
                       /\ st'[p].addressTxCounts = <<>>
                       /\ st'[p].totalSupply = 0
        /\ (/\ pc[p] = "getCurrentHeight"
            /\ st[p].lastScannedBlock = 0
            /\ chainTip >= 1
            /\ pc'[p] \notin {"getCurrentHeight", "failed", "idle"})
              => /\ pc'[p] = "processBlock"
                 /\ height'[p] = 1
                 /\ st'[p] = st[p]
      ]_vars

\* no checkpoint has ever been written and an invocation is at block 1 with
\* the fresh state
FreshStartWitness ==
    \E p \in Passes :
        /\ stateFile.kind = "ENOENT"
        /\ pc[p] = "processBlock"
        /\ height[p] = 1
        /\ st[p] = FreshState

\* C12: whenever the process exits while an invocation holds applied blocks in
\* memory, the checkpoint document left on disk is complete and holds at least
\* those blocks.
ExitPersistsAppliedBlocks ==
    [][\A p \in Passes :
        (pc[p] \notin Settled /\ pc'[p] = "idle" /\ st[p].lastScannedBlock >= 1)
            => /\ stateFile'.kind = "json"
               /\ stateFile'.doc.lastScannedBlock >= st[p].lastScannedBlock
      ]_vars

\* position of a key in a Map
MapIndex(m, k) == CHOOSE i \in 1..Len(m) : m[i][1] = k

\* C13: the snapshot's addresses are exactly the ledger addresses whose balance
\* is >= the minimum, each with its ledger balance, ordered by balance
\* descending with equal balances in ledger insertion order, and the entry at
\* position i has rank i.
RichListFilteredSortedRanked ==
    richListFile.kind = "json" =>
        LET list == richListFile.doc.addresses
            balances == ledger.addressBalances
            eligible == {balances[k][1] : k \in {n \in 1..Len(balances) :
                                                   balances[n][2] >= MIN_BALANCE}}
        IN /\ {list[i].address : i \in 1..Len(list)} = eligible
           /\ Len(list) = Cardinality(eligible)
           /\ \A i \in 1..Len(list) :
                 /\ list[i].rank = i
                 /\ list[i].balance = MapGetOr0(balances, list[i].address)
           /\ \A i, j \in 1..Len(list) :
                 i < j => /\ list[i].balance >= list[j].balance
                          /\ list[i].balance = list[j].balance
                                => MapIndex(balances, list[i].address)
                                      < MapIndex(balances, list[j].address)

\* three addresses: one below the minimum, one exactly at it, and the two
\* listed ones hold equal balances
RichListTieWitness ==
    /\ richListFile.kind = "json"
    /\ Len(ledger.addressBalances) = 3
    /\ Len(richListFile.doc.addresses) = 2
    /\ richListFile.doc.addresses[1].balance = MIN_BALANCE
    /\ richListFile.doc.addresses[2].balance = MIN_BALANCE
    /\ ledger.addressBalances[1][2] < MIN_BALANCE

\* C14: the snapshot's totalSupply is the sum of all ledger balances, those
\* below the minimum included, and each listed address's percentage is its
\* balance divided by that total, times 100 (kept as the fraction
\* <<balance * 100, total>>).
RichListSupplyUnfiltered ==
    richListFile.kind = "json" =>
        LET list == richListFile.doc.addresses
            total == SumValues(ledger.addressBalances, 1)
        IN /\ richListFile.doc.totalSupply = total
           /\ \A i \in 1..Len(list) :
                 list[i].percentage =
                     <<MapGetOr0(ledger.addressBalances, list[i].address) * 100, total>>

\* an address below the minimum is absent from the list and counted in the total
RichListDustWitness ==
    /\ richListFile.kind = "json"
    /\ Len(richListFile.doc.addresses) = 1
    /\ MapGetOr0(ledger.addressBalances, "A") = 1
    /\ richListFile.doc.addresses[1].address = "B"
    /\ richListFile.doc.addresses[1].percentage = <<300, 4>>
    /\ richListFile.doc.totalSupply = 4

SnapshotRoutes == {"/rich-list", "/rich-list/metadata", "/rich-list/paginated"}

\* C15: whatever page and pageSize a request carries, one response of
\* /rich-list/paginated holds at most 1000 addresses.
PageHoldsAtMostMaximum ==
    lastResponse.endpoint = "/rich-list/paginated"
        => Len(lastResponse.body.addresses) <= 1000

\* the page number a request names: the number page parses to, page 1 when the
\* parameter is missing or not a number
RequestedPage(query) ==
    IF parseIntOf(query.page).nan THEN 1 ELSE parseIntOf(query.page).n

\* C16: for a snapshot of N addresses and a page size s >= 1, a request for a
\* page in 1..ceil(N/s) is answered with the addresses at positions
\* (page-1)*s+1 .. min(page*s, N) in snapshot order, a request for any other
\* page with an empty array, and totalPages is ceil(N/s).
PageIsRequestedSlice ==
    (/\ lastResponse.endpoint = "/rich-list/paginated"
     /\ lastResponse.status = 200
     /\ lastResponse.body.pageSize >= 1)
        => LET list == richListFile.doc.addresses
               N == Len(list)
               s == lastResponse.body.pageSize
               pages == (N + s - 1) \div s
               page == RequestedPage(lastResponse.query)
           IN /\ lastResponse.body.totalPages = pages
              /\ lastResponse.body.addresses =
                    IF page \in 1..pages
                    THEN SubSeq(list, (page - 1) * s + 1, Min(page * s, N))
                    ELSE <<>>

\* C17: while rich-list.json does not exist, the three snapshot routes answer
\* 404 'Rich list not yet generated' and never a list; once a snapshot exists,
\* also one listing no address, they answer 200 with that document's content.
MissingSnapshotIs404EmptyIs200 ==
    lastResponse.endpoint \in SnapshotRoutes =>
        /\ richListFile.kind = "ENOENT"
              => /\ lastResponse.status = 404
                 /\ lastResponse.body = ErrorBody(404)
                 /\ lastResponse.body.error = "Rich list not yet generated"
                 /\ ~lastResponse.body.listed
        /\ lastResponse.status = 404 => richListFile.kind = "ENOENT"
        /\ richListFile.kind = "json"
              => /\ lastResponse.status = 200
                 /\ lastResponse.body.error = ""
                 /\ lastResponse.body.lastBlockHeight = richListFile.doc.lastBlockHeight
                 /\ lastResponse.body.totalSupply = richListFile.doc.totalSupply
                 /\ lastResponse.body.totalAddresses = richListFile.doc.totalAddresses
                 /\ lastResponse.endpoint = "/rich-list"
                       => /\ lastResponse.body.listed
                          /\ lastResponse.body.addresses = richListFile.doc.addresses
                 /\ (lastResponse.endpoint = "/rich-list/paginated"
                     /\ richListFile.doc.addresses = <<>>)
                       => /\ lastResponse.body.listed
                          /\ lastResponse.body.addresses = <<>>

\* a snapshot listing no address is served with 200
EmptySnapshotServed ==
    /\ richListFile.kind = "json"
    /\ richListFile.doc.addresses = <<>>
    /\ lastResponse.endpoint = "/rich-list"
    /\ lastResponse.status = 200
    /\ lastResponse.body.listed
    /\ lastResponse.body.totalAddresses = 0

\* the sum of the amounts of the entries that name address a, once per naming
RECURSIVE AmountNaming(_, _, _)
AmountNaming(entries, i, a) ==
    IF i > Len(entries) THEN 0
    ELSE (IF entries[i].addrKind = "list" /\ entries[i].hasValue
          THEN entries[i].value
                  * Cardinality({k \in 1..Len(entries[i].addresses) :
                                    entries[i].addresses[k] = a})
          ELSE 0) + AmountNaming(entries, i + 1, a)

\* outputs to a minus non-coinbase inputs from a
NetChange(tx, a) ==
    AmountNaming(tx.vout, 1, a)
       - AmountNaming(SelectSeq(tx.vin, LAMBDA input : ~input.coinbase), 1, a)

\* C18: applying one transaction changes the balance of each address by the
\* sum of its output amounts minus the sum of its non-coinbase input amounts
\* (coinbase inputs are skipped) and leaves every other address unchanged; an
\* address whose balance comes out at 0 or below is absent afterwards.
TransactionAppliesNetChange ==
    [][\A a \in LedgerAddresses :
          LET after == MapGetOr0(ledger.addressBalances, a) + NetChange(lastTx', a)
          IN IF after > 0
             THEN /\ MapHas(ledger'.addressBalances, a)
                  /\ MapGetOr0(ledger'.addressBalances, a) = after
             ELSE ~MapHas(ledger'.addressBalances, a)
      ]_<<ledger, lastTx>>

\* A held 2, the last transaction spent 2 from A and paid 1 to B: A is absent
\* and B holds 1
SpendAllPayPartWitness ==
    /\ lastTx = Tx(<<Entry("A", 2)>>, <<Entry("B", 1)>>)
    /\ ~MapHas(ledger.addressBalances, "A")
    /\ MapGetOr0(ledger.addressBalances, "B") = 1

\* the URL initializeConfig classifies
ApiUrl(e) ==
    IF Truthy(e["BLOCKBOOK_API_URL"]) THEN e["BLOCKBOOK_API_URL"].value ELSE UrlDefault

\* the mode API_MODE forces, "" when it forces none
ManualMode(e) ==
    IF e["API_MODE"] = Text(Str_local) THEN "local"
    ELSE IF e["API_MODE"] = Text(Str_public) THEN "public"
    ELSE ""

\* where the host of each URL is: a loopback address, an RFC1918 private
\* address, a name of the container network, or the public internet
HostNetwork(url) ==
    CASE url \in {UrlLocalhost, UrlLoopback4, UrlLoopback6} -> "loopback"
      [] url \in {UrlPrivate10, UrlPrivate192, UrlPrivate172, UrlPrivateTls} -> "private"
      [] url = UrlDefault -> "service"
      [] OTHER -> "internet"

\* C19: detectApiMode returns 'local' exactly when the URL is a loopback
\* address, an RFC1918 private address or an internal service name, and
\* 'public' otherwise: without a forced mode, the mode initializeConfig sets is
\* 'local' for those URLs and 'public' for every URL of the public internet.
ModeFollowsHostNetwork ==
    [][ManualMode(env) = "" =>
          /\ currentMode' = detectApiMode(ApiUrl(env))
          /\ currentMode' = "local" <=> HostNetwork(ApiUrl(env)) # "internet"
      ]_vars

\* the profile named by a mode
BaseProfile(mode) == IF mode = "local" THEN LOCAL_CONFIG ELSE PUBLIC_CONFIG

\* the mode initializeConfig selects
SelectedMode(e) ==
    IF ManualMode(e) # "" THEN ManualMode(e) ELSE detectApiMode(ApiUrl(e))

\* the variable that overrides a field, "" when the field has none
VariableOf(field) ==
    CASE field = "timeout" -> "API_TIMEOUT"
      [] field = "retryLimit" -> "API_RETRY_LIMIT"
      [] field = "batchSize" -> "BATCH_SIZE"
      [] field = "throttleDelay" -> "THROTTLE_DELAY"
      [] field = "checkpointInterval" -> "CHECKPOINT_INTERVAL"
      [] OTHER -> ""

\* C20: a call of initializeConfig, the first one or a later one, leaves as
\* active profile the base profile of the selected mode (API_MODE when it is
\* 'local' or 'public', the detected mode otherwise) in which each field whose
\* variable is set to a non-empty value holds the number that value parses to
\* and every other field holds the base value; currentMode is the selected mode.
InitializeConfigResolvesProfile ==
    LET r == initializeConfig(env, activeConfig, currentMode) IN
    /\ r.currentMode = SelectedMode(env)
    /\ \A f \in ConfigFields :
          r.activeConfig[f] =
              IF VariableOf(f) # "" /\ Truthy(env[VariableOf(f)])
              THEN parseInt(env[VariableOf(f)].value)
              ELSE BaseProfile(SelectedMode(env))[f]
    /\ initializeConfig(env, r.activeConfig, r.currentMode) = r

\* initializeConfig has run with a local URL and two overrides
OverriddenLocalProfile ==
    /\ env["API_MODE"] = Undefined
    /\ env["BLOCKBOOK_API_URL"] = Text(UrlPrivate10)
    /\ env["API_TIMEOUT"] = Text(Str_25)
    /\ env["BATCH_SIZE"] = Text(Str_7)
    /\ env["THROTTLE_DELAY"] = Undefined
    /\ currentMode = "local"
    /\ activeConfig.timeout = Num(25)
    /\ activeConfig.batchSize = Num(7)
    /\ activeConfig.throttleDelay = Num(100)
    /\ activeConfig.healthCheckInterval = Num(30000)

\* C21: in every configuration state, each of timeout, retryLimit, batchSize,
\* throttleDelay and checkpointInterval of the active profile is a positive
\* integer, whatever values the environment supplies.
ProfileFieldsPositive ==
    \A f \in {"timeout", "retryLimit", "batchSize", "throttleDelay", "checkpointInterval"} :
        /\ ~activeConfig[f].nan
        /\ activeConfig[f].n > 0

\* C22: with the checkpoint document kept, a pass that completes without
\* error leaves a snapshot document on disk, also when the snapshot had been
\* deleted before and whatever the chain height is.
CompletedPassLeavesSnapshot ==
    [][\A p \in Passes :
        (/\ pc[p] \notin Settled
         /\ pc'[p] \in {"upToDate", "completed"}
         /\ stateFile.kind = "json")
            => richListFile'.kind = "json"
      ]_vars

ThrottleEveryBatch ==
    [][\A p \in Passes :
        /\ (/\ pc[p] = "processBlock"
            /\ blocksProcessed'[p] = blocksProcessed[p] + 1
            /\ blocksProcessed'[p] % BATCH_SIZE = 0)
              => pc'[p] \in {"checkpointOpen", "throttle"}
        /\ (/\ pc[p] = "checkpointWrite"
            /\ pc'[p] \notin {"checkpointWrite", "idle"}
            /\ blocksProcessed[p] % BATCH_SIZE = 0)
              => pc'[p] = "throttle"
        /\ (/\ pc'[p] = "processBlock"
            /\ pc[p] \notin {"processBlock", "getCurrentHeight"}
            /\ blocksProcessed[p] % BATCH_SIZE = 0)
              => pc[p] = "throttle"
        /\ (pc[p] = "processBlock" /\ pc'[p] = "processBlock"
            /\ blocksProcessed'[p] = blocksProcessed[p] + 1)
              => blocksProcessed'[p] % BATCH_SIZE # 0
      ]_vars

\* the pause is taken at a block at which the checkpoint was written too
PauseAfterCheckpoint ==
    \E p \in Passes :
        /\ pc[p] = "throttle"
        /\ blocksProcessed[p] > 0
        /\ blocksProcessed[p] % CHECKPOINT_INTERVAL = 0
        /\ blocksProcessed[p] % BATCH_SIZE = 0
        /\ stateFile.kind = "json"
        /\ stateFile.doc.lastScannedBlock = st[p].lastScannedBlock

\* the amounts of the namings of address a by the entries, in order
RECURSIVE ValuesNaming(_, _, _)
ValuesNaming(entries, i, a) ==
    IF i > Len(entries) THEN <<>>
    ELSE (IF entries[i].addrKind = "list" /\ entries[i].hasValue
          THEN [k \in 1..Cardinality({k \in 1..Len(entries[i].addresses) :
                                         entries[i].addresses[k] = a})
                  |-> entries[i].value]
          ELSE <<>>) \o ValuesNaming(entries, i + 1, a)

RECURSIVE SumTo(_, _)
SumTo(seq, k) == IF k = 0 THEN 0 ELSE seq[k] + SumTo(seq, k - 1)

\* the touches of address a one transaction counts: one per naming by a
\* non-coinbase input, and one per naming by an output after which the net
\* delta of a within the transaction is 0 or more
Touches(tx, a) ==
    LET ins  == ValuesNaming(SelectSeq(tx.vin, LAMBDA input : ~input.coinbase), 1, a)
        outs == ValuesNaming(tx.vout, 1, a)
    IN Len(ins)
         + Cardinality({k \in 1..Len(outs) : SumTo(outs, k) - SumTo(ins, Len(ins)) >= 0})

\* C26: an address a transaction leaves with a balance of 0 or below is absent
\* from the balances and from the counts afterwards, and an address that had no
\* count and has one after a transaction has exactly the touches of that
\* transaction as its count.
RemovedAddressForgotten ==
    [][\A a \in LedgerAddresses :
          /\ MapGetOr0(ledger.addressBalances, a) + NetChange(lastTx', a) <= 0
                => /\ ~MapHas(ledger'.addressBalances, a)
                   /\ ~MapHas(ledger'.addressTxCounts, a)
          /\ (~MapHas(ledger.addressTxCounts, a) /\ MapHas(ledger'.addressTxCounts, a))
                => MapGetOr0(ledger'.addressTxCounts, a) = Touches(lastTx', a)
      ]_<<ledger, lastTx>>

\* the last transaction spent all of A and paid B: A has neither balance nor
\* count, B has both
EmptiedAddressWitness ==
    /\ lastTx = Tx(<<Entry("A", 1)>>, <<Entry("B", 1)>>)
    /\ ~MapHas(ledger.addressBalances, "A")
    /\ ~MapHas(ledger.addressTxCounts, "A")
    /\ MapGetOr0(ledger.addressBalances, "B") = 2
    /\ MapGetOr0(ledger.addressTxCounts, "B") = 2

InLoop == {"processBlock", "checkpointOpen", "checkpointWrite", "throttle", "catchOpen",
           "catchWrite", "finalOpen", "finalWrite", "richListOpen", "richListWrite"}

\* the chain height is read once, the heights processed go up by one from
\* lastScannedBlock + 1 and stay within the height read, and an invocation
\* that completes has processed up to the height read
PassProcessesRangeOnce ==
    [][\A p \in Passes :
        /\ (pc[p] \in InLoop /\ pc'[p] \in InLoop \cup {"completed", "failed"})
              => currentHeight'[p] = currentHeight[p]
        /\ (pc[p] = "getCurrentHeight" /\ pc'[p] \in InLoop)
              => /\ currentHeight'[p] = chainTip
                 /\ height'[p] = st[p].lastScannedBlock + 1
                 /\ pc'[p] = "processBlock"
        /\ (pc[p] = "processBlock" /\ blocksProcessed'[p] = blocksProcessed[p] + 1)
              => /\ height[p] = st[p].lastScannedBlock + 1
                 /\ height[p] <= currentHeight[p]
                 /\ st'[p].lastScannedBlock = height[p]
        /\ (pc[p] \in InLoop /\ pc'[p] \in InLoop
            /\ st'[p].lastScannedBlock # st[p].lastScannedBlock)
              => (pc[p] = "processBlock" /\ blocksProcessed'[p] = blocksProcessed[p] + 1)
        /\ (pc[p] \in InLoop /\ pc'[p] = "completed")
              => st[p].lastScannedBlock = currentHeight[p]
      ]_vars

PassEnds == \A p \in Passes : (pc[p] \notin Settled) ~> (pc[p] \in Settled)

\* C28: every invocation that started ends, by returning or by throwing; it
\* reads the chain height once, processes the heights lastScannedBlock + 1 up
\* to that height in ascending order, each once, and blocks that appear while
\* it runs do not extend it.
PassTerminatesOverFixedRange == PassProcessesRangeOnce /\ PassEnds

\* an invocation completed at the height it read although the chain had grown
\* in the meantime
CompletedBelowTip ==
    \E p \in Passes :
        /\ pc[p] = "completed"
        /\ blocksProcessed[p] >= 1
        /\ st[p].lastScannedBlock = currentHeight[p]
        /\ currentHeight[p] < chainTip

\* the last call of processTransaction ran to its end
Completed(tx) ==
    /\ \A i \in 1..Len(tx.vin) : tx.vin[i].addrKind # "notIterable"
    /\ \A i \in 1..Len(tx.vout) : tx.vout[i].addrKind # "notIterable"

SameKeysCountedOnce(state) ==
    /\ MapKeys(state.addressBalances) = MapKeys(state.addressTxCounts)
    /\ \A a \in MapKeys(state.addressBalances) : MapGetOr0(state.addressTxCounts, a) >= 1

\* C29: after every call of processTransaction that ran to its end, the
\* balances and the counts have the same addresses as keys, and every address
\* with a balance has a count of 1 or more.
LedgerKeySetsEqual == Completed(lastTx) => SameKeysCountedOnce(ledger)

\* the same, where no call has thrown
LedgerKeySetsEqualNoThrow == SameKeysCountedOnce(ledger)

\* C30: whenever the checkpoint and the snapshot both exist, the snapshot's
\* lastBlockHeight is at most the checkpoint's lastScannedBlock; right after
\* an invocation completed, both exist and equal the height that invocation
\* read.
SnapshotNotAheadOfCheckpoint ==
    [][/\ (stateFile'.kind = "json" /\ richListFile'.kind = "json")
             => richListFile'.doc.lastBlockHeight <= stateFile'.doc.lastScannedBlock
       /\ \A p \in Passes :
             (pc[p] = "richListWrite" /\ pc'[p] = "completed")
                => /\ stateFile'.kind = "json"
                   /\ richListFile'.kind = "json"
                   /\ stateFile'.doc.lastScannedBlock = currentHeight[p]
                   /\ richListFile'.doc.lastBlockHeight = currentHeight[p]
      ]_vars

====
